---- MODULE Spec2Model ----
(***************************************************************************)
(* caraconnect: the wallet/escrow ledger and the task lifecycle of         *)
(* src/contexts/TaskContext.tsx and src/contexts/WalletContext.tsx over    *)
(* the document store of src/firebase/database.ts.                         *)
(*                                                                         *)
(* Amounts are kept in hundredths of a naira, so that                      *)
(* reward_amount * commission_percentage / 100 is an integer whenever the  *)
(* reward is a whole number of naira and the percentage a whole number.    *)
(* The binary64 arithmetic of the commission split itself is modelled      *)
(* separately (see "Commission split in binary64" below).                  *)
(***************************************************************************)
EXTENDS Integers, Sequences, FiniteSets, TLC

VARIABLES
    settings,       \* platform_settings/main
    accounts,       \* per user: signed up or not, and how many wallet documents carry its user_id
    checkouts,      \* deposit transactions whose browser is at the gateway, return not yet received
    wallets,        \* wallets collection: one document (or none) per user
    tasks,          \* tasks collection; the task id is the index
    escrows,        \* escrows collection: per task_id, its documents in document-id (query) order
    transactions,   \* transactions collection; the id is the index
    ctxWallet,      \* WalletProvider's React state `wallet`, per signed-in user
    timers,         \* setTimeout callbacks of deposit/withdraw not yet run
    procs,          \* acceptTask calls in flight (position and locals)
    hist,           \* per task: the handlers that have run on it, in order
    delta,          \* per task: change of the money in circulation its handlers made
    lastCall,       \* the last handler call and how it ended
    nops,           \* number of handler calls so far
    split           \* a commission split computed in binary64 (JavaScript numbers)

vars == <<settings, accounts, checkouts, wallets, tasks, escrows, transactions, ctxWallet, timers,
          procs, hist, delta, lastCall, nops, split>>

----------------------------------------------------------------------------
(* Bounds *)

MaxOps == 4
MaxTasks == 1
MaxTimers == 1
MaxPending == 2

Naira(n) == n * 100

Users == {"u1", "u2", "u3"}
NoUser == ""

RewardChoices == {Naira(2000)}
PctChoices == {0, 10, 100}
AmountChoices == {Naira(0) - Naira(500), Naira(0), Naira(1000)}

----------------------------------------------------------------------------
(* Documents *)

NoWallet ==
    [id |-> "", balance |-> 0, escrow_balance |-> 0,
     total_earned |-> 0, total_spent |-> 0]

NewWallet(u, bal) ==
    [id |-> u, balance |-> bal, escrow_balance |-> 0,
     total_earned |-> 0, total_spent |-> 0]

defaultSettings ==
    [commission_percentage |-> 10,
     minimum_task_amount |-> Naira(100),
     maximum_task_amount |-> Naira(100000)]

getWallet(u) == wallets[u]

InsertAt(s, i, e) == SubSeq(s, 1, i - 1) \o <<e>> \o SubSeq(s, i, Len(s))

getEscrowsByTaskId(es, t) == es[t]

\* createEscrow: the new document gets a random id, so it may come anywhere
\* in the query order of its task
createEscrow(es, t, i, e) == [es EXCEPT ![t] = InsertAt(@, i, e)]

Txn(u, type, amount, t, status) ==
    [user_id |-> u, type |-> type, amount |-> amount, task_id |-> t, status |-> status]

RECURSIVE SumOver(_, _)
SumOver(S, f) ==
    IF S = {} THEN 0
    ELSE LET x == CHOOSE y \in S : TRUE IN f[x] + SumOver(S \ {x}, f)

\* money in circulation: all wallet balances plus all escrow balances
Circulation(ws) ==
    SumOver(Users, [u \in Users |-> ws[u].balance + ws[u].escrow_balance])

----------------------------------------------------------------------------
(* Commission Policy *)

commissionAmount(reward, pct) == (reward * pct) \div 100

runnerAmount(reward, commission) == reward - commission

----------------------------------------------------------------------------
(* Commission split in binary64.  reward_amount and the two amounts of the   *)
(* split are JavaScript numbers: IEEE-754 doubles, every operation rounded   *)
(* to 53 significant bits, ties to even.  A double is written here as the    *)
(* natural number value * 2^FracBits (all the doubles that occur are zero or *)
(* at least 1, so they are whole multiples of 2^-52).                        *)

FracBits == 60
Precision == 53
LimbBits == 20
Limb == 2^LimbBits
StepBits == 10

Min(a, b) == IF a < b THEN a ELSE b

\* a natural number as its digits in base Limb, least significant first
RECURSIVE BigOf(_)
BigOf(n) == IF n = 0 THEN <<>> ELSE <<n % Limb>> \o BigOf(n \div Limb)

RECURSIVE Trim(_)
Trim(x) ==
    IF x = <<>> THEN <<>>
    ELSE IF x[Len(x)] = 0 THEN Trim(SubSeq(x, 1, Len(x) - 1))
    ELSE x

Digit(x, i) == IF i <= Len(x) THEN x[i] ELSE 0

RECURSIVE AddFrom(_, _, _, _)
AddFrom(x, y, i, carry) ==
    IF i > Len(x) /\ i > Len(y)
    THEN IF carry = 0 THEN <<>> ELSE <<carry>>
    ELSE LET sum == Digit(x, i) + Digit(y, i) + carry
         IN  <<sum % Limb>> \o AddFrom(x, y, i + 1, sum \div Limb)

BigAdd(x, y) == Trim(AddFrom(x, y, 1, 0))

\* x - y for x >= y
RECURSIVE SubFrom(_, _, _, _)
SubFrom(x, y, i, borrow) ==
    IF i > Len(x) THEN <<>>
    ELSE LET d == Digit(x, i) - Digit(y, i) - borrow
         IN  <<d % Limb>> \o SubFrom(x, y, i + 1, IF d < 0 THEN 1 ELSE 0)

BigSub(x, y) == Trim(SubFrom(x, y, 1, 0))

\* x * k for a small number k (k <= 2^StepBits)
RECURSIVE MulFrom(_, _, _, _)
MulFrom(x, k, i, carry) ==
    IF i > Len(x)
    THEN IF carry = 0 THEN <<>> ELSE <<carry>>
    ELSE LET prod == x[i] * k + carry
         IN  <<prod % Limb>> \o MulFrom(x, k, i + 1, prod \div Limb)

BigMulSmall(x, k) == Trim(MulFrom(x, k, 1, 0))

\* long division of x by the small number d (d <= 2^StepBits), from the top
\* digit down: [q |-> quotient, r |-> remainder]
RECURSIVE DivFrom(_, _, _, _)
DivFrom(x, d, i, rem) ==
    IF i > Len(x) THEN [q |-> <<>>, r |-> rem]
    ELSE LET cur == rem * Limb + x[Len(x) + 1 - i]
             rest == DivFrom(x, d, i + 1, cur % d)
         IN  [q |-> rest.q \o <<cur \div d>>, r |-> rest.r]

BigDivSmall(x, d) ==
    LET res == DivFrom(x, d, 1, 0) IN [q |-> Trim(res.q), r |-> res.r]

\* x * 2^k
RECURSIVE Shl(_, _)
Shl(x, k) ==
    IF k = 0 THEN x
    ELSE Shl(BigMulSmall(x, 2^Min(k, StepBits)), k - Min(k, StepBits))

\* x \div 2^k, and whether anything was shifted out
RECURSIVE Shr(_, _, _)
Shr(x, k, lost) ==
    IF k = 0 THEN [q |-> x, lost |-> lost]
    ELSE LET d == BigDivSmall(x, 2^Min(k, StepBits))
         IN  Shr(d.q, k - Min(k, StepBits), lost \/ d.r # 0)

\* the number of bits of x
BitLen(x) ==
    IF x = <<>> THEN 0
    ELSE LimbBits * (Len(x) - 1)
         + (CHOOSE n \in 1..LimbBits : 2^(n - 1) <= x[Len(x)] /\ x[Len(x)] < 2^n)

\* round to nearest, ties to even: x with everything below its top 53 bits
\* rounded away; sticky tells that the exact value lies above x
RoundToDouble(x, sticky) ==
    LET drop == BitLen(x) - Precision IN
    IF drop <= 0 THEN x
    ELSE LET y == Shr(x, drop - 1, sticky)
             guard == y.q[1] % 2
             kept == BigDivSmall(y.q, 2).q
             up == guard = 1 /\ (y.lost \/ kept[1] % 2 = 1)
         IN  Shl(IF up THEN BigAdd(kept, <<1>>) ELSE kept, drop)

\* the double nearest to the decimal amount h/100
toDouble(h) ==
    LET d == BigDivSmall(Shl(BigOf(h), FracBits), 100) IN RoundToDouble(d.q, d.r # 0)

\* x * k for a whole number k
fmul(x, k) == RoundToDouble(BigMulSmall(x, k), FALSE)

\* x / 100
fdiv100(x) == LET d == BigDivSmall(x, 100) IN RoundToDouble(d.q, d.r # 0)

fadd(x, y) == RoundToDouble(BigAdd(x, y), FALSE)

\* x - y for x >= y
fsub(x, y) == RoundToDouble(BigSub(x, y), FALSE)

\* const commissionAmount = (taskData.reward_amount * settings.commission_percentage) / 100
commissionAmountF(reward, pct) == fdiv100(fmul(reward, pct))

\* const runnerAmount = taskData.reward_amount - commissionAmount
runnerAmountF(reward, commission) == fsub(reward, commission)

NoSplit == [reward |-> 0, pct |-> 0, done |-> FALSE, commission |-> <<>>, runner |-> <<>>]

----------------------------------------------------------------------------
(* Initial state: the store after onboarding.  Every user is signed in and  *)
(* the WalletProvider of each session has loaded the user's wallet.         *)

InitialWallets ==
    [u \in Users |->
        CASE u = "u1" -> {NewWallet(u, Naira(5000))}
          [] u = "u2" -> {NewWallet(u, Naira(1800))}
          [] OTHER    -> {NewWallet(u, Naira(0)), NoWallet}]

NoTask ==
    [requester_id |-> NoUser, runner_id |-> NoUser, status |-> "",
     reward_amount |-> 0, commission_amount |-> 0, runner_amount |-> 0]

\* an acceptTask call of a session: where it is suspended, its taskId, the
\* `task` and `runnerWallet` it has read, and the task's status when it was called
IdleProc ==
    [pc |-> "idle", t |-> 0, task |-> NoTask, runnerWallet |-> NoWallet, sawStatus |-> ""]

NoCall == [op |-> "none", task |-> 0, caller |-> NoUser, arg |-> 0, outcome |-> "ok"]

\* what the store and Firebase Auth hold of a user
Account(registered, walletDocs) ==
    [registered |-> registered, walletDocs |-> walletDocs]

Init ==
    /\ settings \in {[defaultSettings EXCEPT !.commission_percentage = p] : p \in PctChoices}
    /\ wallets \in {w \in [Users -> UNION {InitialWallets[u] : u \in Users}] :
                        \A u \in Users : w[u] \in InitialWallets[u]}
    /\ tasks = <<>>
    /\ escrows = <<>>
    /\ transactions = <<>>
    /\ ctxWallet = wallets
    /\ timers = {}
    /\ procs = [u \in Users |-> IdleProc]
    /\ hist = <<>>
    /\ delta = <<>>
    /\ lastCall = NoCall
    /\ nops = 0
    /\ split = NoSplit
    /\ checkouts = {}
    /\ accounts = [u \in Users |->
                      Account(TRUE, IF wallets[u] = NoWallet THEN 0 ELSE 1)]

----------------------------------------------------------------------------
(* Bookkeeping shared by the handlers *)

\* arg: the reward of a createNewTask, the amount of a deposit or withdraw
Call(op, t, caller, arg, outcome) ==
    [op |-> op, task |-> t, caller |-> caller, arg |-> arg, outcome |-> outcome]

\* the handler threw before writing anything
Throw(op, t, caller, arg, err) ==
    /\ lastCall' = Call(op, t, caller, arg, err)
    /\ nops' = nops + 1
    /\ UNCHANGED <<settings, accounts, checkouts, split, wallets, tasks, escrows, transactions, ctxWallet,
                   timers, procs, hist, delta>>

\* the handler ran on task t and left the wallets as ws
Record(op, t, ws) ==
    /\ hist' = [hist EXCEPT ![t] = Append(@, op)]
    /\ delta' = [delta EXCEPT ![t] = @ + Circulation(ws) - Circulation(wallets)]

\* handleWalletUpdate: the session of `caller` reloads its wallet when a
\* walletUpdated event names its own user
Refreshed(caller, notified, ws) ==
    IF caller \in notified THEN [ctxWallet EXCEPT ![caller] = ws[caller]]
    ELSE ctxWallet

----------------------------------------------------------------------------
(* createNewTask *)

\* the check made against an empty wallet only
insufficientBalanceEmpty(w, total) == w.balance <= 0

\* if (userWallet.balance < totalAmount) throw
insufficientBalance(w, total) == w.balance < total

\* the hold with the escrow side of the move forgotten
holdRewardNoEscrow(w, total) ==
    [w EXCEPT !.balance = w.balance - total,
              !.total_spent = w.total_spent + total]

holdReward(w, total) ==
    [w EXCEPT !.balance = w.balance - total,
              !.escrow_balance = w.escrow_balance + total,
              !.total_spent = w.total_spent + total]

newTaskDoc(caller, reward, pct) ==
    LET commission == commissionAmount(reward, pct) IN
    [requester_id |-> caller, runner_id |-> NoUser, status |-> "pending",
     reward_amount |-> reward, commission_amount |-> commission,
     runner_amount |-> runnerAmount(reward, commission)]

Escrow(t, requester, runner, amount, commission) ==
    [task_id |-> t, requester_id |-> requester, runner_id |-> runner,
     amount |-> amount, commission_amount |-> commission, status |-> "active",
     closings |-> 0]

CreateNewTask(caller, reward) ==
    /\ nops < MaxOps
    /\ Len(tasks) < MaxTasks
    /\ LET userWallet == getWallet(caller)
           t == Len(tasks) + 1
           doc == newTaskDoc(caller, reward, settings.commission_percentage)
           ws == [wallets EXCEPT ![caller] = holdReward(userWallet, reward)]
       IN  IF userWallet = NoWallet
           THEN Throw("createNewTask", 0, caller, reward, "WALLET_SETUP_REQUIRED")
           ELSE IF insufficientBalance(userWallet, reward)
           THEN Throw("createNewTask", 0, caller, reward, "InsufficientFunds")
           ELSE /\ tasks' = Append(tasks, doc)
                /\ wallets' = ws
                /\ transactions' = Append(transactions,
                        Txn(caller, "task_payment", reward, t, "completed"))
                /\ escrows' = Append(escrows,
                        <<Escrow(t, caller, NoUser, reward, doc.commission_amount)>>)
                /\ ctxWallet' = Refreshed(caller, {caller}, ws)
                /\ hist' = Append(hist, <<"create">>)
                /\ delta' = Append(delta, Circulation(ws) - Circulation(wallets))
                /\ lastCall' = Call("createNewTask", t, caller, reward, "ok")
                /\ nops' = nops + 1
                /\ UNCHANGED <<settings, accounts, checkouts, split, timers, procs>>

----------------------------------------------------------------------------
(* updateTaskStatus: a merge write of the status and the given fields,      *)
(* whatever the task's current status is                                    *)

updateTaskStatus(ts, t, status) == [ts EXCEPT ![t].status = status]

TaskIds == 1..Len(tasks)

----------------------------------------------------------------------------
(* acceptTask *)

acceptUpdate(ts, t, runnerId) ==
    [updateTaskStatus(ts, t, "accepted") EXCEPT ![t].runner_id = runnerId]

\* the hold taken out of the runner's own balance
holdRunnerAmountFromBalance(w, amount) ==
    [w EXCEPT !.balance = w.balance - amount,
              !.escrow_balance = w.escrow_balance + amount]

holdRunnerAmount(w, amount) ==
    [w EXCEPT !.escrow_balance = w.escrow_balance + amount]

AcceptTask(caller, t, runnerId) ==
    /\ nops < MaxOps
    /\ t \in TaskIds
    /\ LET ts == acceptUpdate(tasks, t, runnerId)
           task == ts[t]
           runnerWallet == getWallet(runnerId)
           ws == IF runnerWallet # NoWallet
                 THEN [wallets EXCEPT ![runnerId] =
                            holdRunnerAmount(runnerWallet, task.runner_amount)]
                 ELSE wallets
       IN  /\ tasks' = ts
           /\ \E i \in 1..(Len(escrows[t]) + 1) :
                  escrows' = createEscrow(escrows, t, i,
                      Escrow(t, task.requester_id, runnerId, task.reward_amount,
                             task.commission_amount))
           /\ wallets' = ws
           /\ transactions' =
                  IF runnerWallet # NoWallet
                  THEN Append(transactions,
                          Txn(runnerId, "escrow_hold", task.runner_amount, t, "completed"))
                  ELSE transactions
           /\ ctxWallet' = IF runnerWallet # NoWallet
                           THEN Refreshed(caller, {runnerId}, ws)
                           ELSE ctxWallet
           /\ Record("accept", t, ws)
           /\ lastCall' = Call("acceptTask", t, caller, 0, "ok")
           /\ nops' = nops + 1
           /\ UNCHANGED <<settings, accounts, checkouts, split, timers, procs>>

----------------------------------------------------------------------------
(* startTask *)

\* the check letting anyone start a task that has no runner yet
notAssignedRunnerIfAny(task, caller) ==
    task.runner_id # NoUser /\ task.runner_id # caller

\* if (task.runner_id !== user.uid) throw
notAssignedRunner(task, caller) == task.runner_id # caller

\* a start that also takes a hold of runner_amount on the runner's wallet
StartTaskHolding(caller, t) ==
    /\ nops < MaxOps
    /\ t \in TaskIds
    /\ LET ws == IF getWallet(caller) # NoWallet
                 THEN [wallets EXCEPT ![caller] =
                            holdRunnerAmount(@, tasks[t].runner_amount)]
                 ELSE wallets
       IN  IF notAssignedRunner(tasks[t], caller)
           THEN Throw("startTask", t, caller, 0, "Unauthorized")
           ELSE /\ tasks' = updateTaskStatus(tasks, t, "in_progress")
                /\ wallets' = ws
                /\ Record("start", t, ws)
                /\ lastCall' = Call("startTask", t, caller, 0, "ok")
                /\ nops' = nops + 1
                /\ UNCHANGED <<settings, accounts, checkouts, split, escrows, transactions, ctxWallet,
                               timers, procs>>

StartTask(caller, t) ==
    /\ nops < MaxOps
    /\ t \in TaskIds
    /\ IF notAssignedRunner(tasks[t], caller)
       THEN Throw("startTask", t, caller, 0, "Unauthorized")
       ELSE /\ tasks' = updateTaskStatus(tasks, t, "in_progress")
            /\ Record("start", t, wallets)
            /\ lastCall' = Call("startTask", t, caller, 0, "ok")
            /\ nops' = nops + 1
            /\ UNCHANGED <<settings, accounts, checkouts, split, wallets, escrows, transactions, ctxWallet,
                           timers, procs>>

----------------------------------------------------------------------------
(* completeTask *)

releaseRequesterHold(w, reward) ==
    [w EXCEPT !.escrow_balance = w.escrow_balance - reward]

payRunner(w, amount) ==
    [balance |-> w.balance + amount,
     escrow_balance |-> w.escrow_balance - amount,
     total_earned |-> w.total_earned + amount]

\* setDoc(..., {merge: true}): the written fields replace the stored ones
Merge(w, updates) ==
    [f \in DOMAIN w |-> IF f \in DOMAIN updates THEN updates[f] ELSE w[f]]

\* updateEscrow on escrows[0] of the task's query, if there is one
\* (closings counts the released_at / refunded_at stamps written so far)
closeEscrow(es, t, status) ==
    IF Len(getEscrowsByTaskId(es, t)) > 0
    THEN [es EXCEPT ![t][1].status = status, ![t][1].closings = @ + 1]
    ELSE es

\* both wallets are read before either is written
completeWallets(ws, task) ==
    LET requesterWallet == ws[task.requester_id]
        runnerWallet == ws[task.runner_id]
        w1 == [ws EXCEPT ![task.requester_id] =
                    releaseRequesterHold(requesterWallet, task.reward_amount)]
    IN  [w1 EXCEPT ![task.runner_id] =
                    Merge(@, payRunner(runnerWallet, task.runner_amount))]

CompleteTask(caller, t) ==
    /\ nops < MaxOps
    /\ t \in TaskIds
    /\ LET task == tasks[t]
           settle == /\ task.runner_id # NoUser
                     /\ task.runner_amount > 0
                     /\ getWallet(task.requester_id) # NoWallet
                     /\ getWallet(task.runner_id) # NoWallet
           ws == IF settle THEN completeWallets(wallets, task) ELSE wallets
       IN  /\ tasks' = updateTaskStatus(tasks, t, "completed")
           /\ wallets' = ws
           /\ transactions' =
                  IF settle
                  THEN transactions \o
                       << Txn(task.runner_id, "task_earning", task.runner_amount, t, "completed"),
                          Txn(task.requester_id, "escrow_release", task.reward_amount, t, "completed") >>
                  ELSE transactions
           /\ escrows' = IF settle THEN closeEscrow(escrows, t, "released") ELSE escrows
           /\ ctxWallet' = IF settle
                           THEN Refreshed(caller, {task.runner_id, task.requester_id}, ws)
                           ELSE ctxWallet
           /\ Record("complete", t, ws)
           /\ lastCall' = Call("completeTask", t, caller, 0, "ok")
           /\ nops' = nops + 1
           /\ UNCHANGED <<settings, accounts, checkouts, split, timers, procs>>

----------------------------------------------------------------------------
(* cancelTask *)

refundRequester(w, refundAmount) ==
    [w EXCEPT !.balance = w.balance + refundAmount,
              !.escrow_balance = w.escrow_balance - refundAmount]

\* the release paid into the runner's balance
releaseRunnerHoldToBalance(w, amount) ==
    [w EXCEPT !.balance = w.balance + amount,
              !.escrow_balance = w.escrow_balance - amount]

releaseRunnerHold(w, amount) ==
    [w EXCEPT !.escrow_balance = w.escrow_balance - amount]

\* the refund branch: the requester is written first, the runner's wallet is
\* read afterwards
cancelWallets(ws, es, task, t) ==
    LET found == getEscrowsByTaskId(es, t)
        w1 == IF Len(found) > 0
              THEN IF ws[task.requester_id] # NoWallet
                   THEN [ws EXCEPT ![task.requester_id] = refundRequester(@, found[1].amount)]
                   ELSE ws
              ELSE ws
        releaseRunner == /\ Len(found) > 0 => ws[task.requester_id] # NoWallet
                         /\ w1[task.runner_id] # NoWallet
    IN  IF releaseRunner
        THEN [w1 EXCEPT ![task.runner_id] = releaseRunnerHold(@, task.runner_amount)]
        ELSE w1

CancelTask(caller, t) ==
    /\ nops < MaxOps
    /\ t \in TaskIds
    /\ LET task == tasks[t]
           refund == task.runner_id # NoUser /\ task.status = "accepted"
           found == getEscrowsByTaskId(escrows, t)
           requesterOk == Len(found) > 0 /\ getWallet(task.requester_id) # NoWallet
           runnerOk == /\ Len(found) > 0 => requesterOk
                       /\ getWallet(task.runner_id) # NoWallet
           ws == IF refund THEN cancelWallets(wallets, escrows, task, t) ELSE wallets
       IN  /\ tasks' = updateTaskStatus(tasks, t, "cancelled")
           /\ wallets' = ws
           /\ transactions' =
                  IF refund
                  THEN transactions
                       \o (IF requesterOk
                           THEN <<Txn(task.requester_id, "refund", found[1].amount, t, "completed")>>
                           ELSE <<>>)
                       \o (IF runnerOk
                           THEN <<Txn(task.runner_id, "escrow_release", task.runner_amount, t, "completed")>>
                           ELSE <<>>)
                  ELSE transactions
           /\ escrows' = IF refund /\ requesterOk
                         THEN closeEscrow(escrows, t, "refunded")
                         ELSE escrows
           /\ ctxWallet' =
                  IF refund
                  THEN Refreshed(caller,
                          (IF requesterOk THEN {task.requester_id} ELSE {})
                          \cup (IF runnerOk THEN {task.runner_id} ELSE {}), ws)
                  ELSE ctxWallet
           /\ Record("cancel", t, ws)
           /\ lastCall' = Call("cancelTask", t, caller, 0, "ok")
           /\ nops' = nops + 1
           /\ UNCHANGED <<settings, accounts, checkouts, split, timers, procs>>

----------------------------------------------------------------------------
(* WalletProvider: deposit and withdraw.  Each creates a pending            *)
(* transaction and arms a timer whose callback closes over the `wallet`     *)
(* state of the render in which the handler was called.                     *)

Timer(kind, u, txn, amount, w) ==
    [kind |-> kind, user |-> u, txn |-> txn, amount |-> amount, wallet |-> w]

Arm(kind, type, u, amount) ==
    /\ transactions' = Append(transactions, Txn(u, type, amount, 0, "pending"))
    /\ timers' = timers \cup {Timer(kind, u, Len(transactions) + 1, amount, ctxWallet[u])}
    /\ lastCall' = Call(kind, 0, u, amount, "ok")
    /\ nops' = nops + 1
    /\ UNCHANGED <<settings, accounts, checkouts, split, wallets, tasks, escrows, ctxWallet, procs, hist, delta>>

\* the check that lets an amount of zero through
invalidAmountNegative(amount) == amount < 0

\* if (amount <= 0) throw
invalidAmount(amount) == amount <= 0

Deposit(u, amount) ==
    /\ nops < MaxOps
    /\ Cardinality(timers) < MaxTimers
    /\ IF ctxWallet[u] = NoWallet
       THEN Throw("deposit", 0, u, amount, "NoWallet")
       ELSE IF invalidAmount(amount)
       THEN Throw("deposit", 0, u, amount, "InvalidAmount")
       ELSE Arm("deposit", "deposit", u, amount)

\* the handler, from its first check to the arming of its timer
withdraw(u, amount) ==
    IF ctxWallet[u] = NoWallet
    THEN Throw("withdraw", 0, u, amount, "NoWallet")
    ELSE IF invalidAmount(amount)
    THEN Throw("withdraw", 0, u, amount, "InvalidAmount")
    ELSE IF amount > ctxWallet[u].balance
    THEN Throw("withdraw", 0, u, amount, "InsufficientFunds")
    ELSE Arm("withdraw", "withdrawal", u, amount)

Withdraw(u, amount) ==
    /\ nops < MaxOps
    /\ Cardinality(timers) < MaxTimers
    /\ withdraw(u, amount)

timerBalance(tm) ==
    IF tm.kind = "deposit" THEN tm.wallet.balance + tm.amount
    ELSE tm.wallet.balance - tm.amount

\* the setTimeout callback: updateTransaction, updateWallet, refreshWallet
TimerFires(tm) ==
    /\ tm \in timers
    /\ timers' = timers \ {tm}
    /\ transactions' = [transactions EXCEPT ![tm.txn].status = "completed"]
    /\ wallets' = [wallets EXCEPT ![tm.user].balance = timerBalance(tm)]
    /\ ctxWallet' = [ctxWallet EXCEPT ![tm.user] = wallets'[tm.user]]
    /\ UNCHANGED <<settings, accounts, checkouts, split, tasks, escrows, procs, hist, delta, lastCall, nops>>

\* loadWalletData / refreshWallet: the session reloads the stored wallet
RefreshWallet(u) ==
    /\ ctxWallet[u] # wallets[u]
    /\ ctxWallet' = [ctxWallet EXCEPT ![u] = wallets[u]]
    /\ UNCHANGED <<settings, accounts, checkouts, split, wallets, tasks, escrows, transactions, timers,
                   procs, hist, delta, lastCall, nops>>

----------------------------------------------------------------------------
(* The sequential specification: handlers run one at a time, to completion *)

Next ==
    \/ \E u \in Users, r \in RewardChoices : CreateNewTask(u, r)
    \/ \E u \in Users, t \in TaskIds, r \in Users : AcceptTask(u, t, r)
    \/ \E u \in Users, t \in TaskIds : StartTask(u, t)
    \/ \E u \in Users, t \in TaskIds : CompleteTask(u, t)
    \/ \E u \in Users, t \in TaskIds : CancelTask(u, t)
    \/ \E u \in Users, a \in AmountChoices : Deposit(u, a)
    \/ \E u \in Users, a \in AmountChoices : Withdraw(u, a)
    \/ \E tm \in timers : TimerFires(tm)
    \/ \E u \in Users : RefreshWallet(u)

Spec == Init /\ [][Next]_vars

\* the task lifecycle alone
NextTasks ==
    \/ \E u \in Users, r \in RewardChoices : CreateNewTask(u, r)
    \/ \E u \in Users, t \in TaskIds, r \in Users : AcceptTask(u, t, r)
    \/ \E u \in Users, t \in TaskIds : StartTask(u, t)
    \/ \E u \in Users, t \in TaskIds : CompleteTask(u, t)
    \/ \E u \in Users, t \in TaskIds : CancelTask(u, t)

SpecTasks == Init /\ [][NextTasks]_vars

----------------------------------------------------------------------------
(* acceptTask step by step: the call of session u with runnerId = u, as      *)
(* TaskDetailsPage.handleAcceptTask makes it, suspended at each await.       *)
(* Calls of different sessions interleave at these points.                   *)

At(u, pc) == procs[u].pc = pc

Goto(u, pc) == procs' = [procs EXCEPT ![u].pc = pc]

AcceptCall(u, t) ==
    /\ nops < MaxOps
    /\ At(u, "idle")
    /\ t \in TaskIds
    /\ procs' = [procs EXCEPT ![u] =
                    [IdleProc EXCEPT !.pc = "updateTask", !.t = t,
                                     !.sawStatus = tasks[t].status]]
    /\ nops' = nops + 1
    /\ UNCHANGED <<settings, accounts, checkouts, split, wallets, tasks, escrows, transactions, ctxWallet,
                   timers, hist, delta, lastCall>>

\* await updateTaskStatus(taskId, 'accepted', { runner_id: runnerId })
AcceptUpdateTask(u) ==
    /\ At(u, "updateTask")
    /\ tasks' = acceptUpdate(tasks, procs[u].t, u)
    /\ Goto(u, "getTask")
    /\ UNCHANGED <<settings, accounts, checkouts, split, wallets, escrows, transactions, ctxWallet, timers,
                   hist, delta, lastCall, nops>>

\* const task = await getTask(taskId)
AcceptGetTask(u) ==
    /\ At(u, "getTask")
    /\ procs' = [procs EXCEPT ![u].pc = "createEscrow", ![u].task = tasks[procs[u].t]]
    /\ UNCHANGED <<settings, accounts, checkouts, split, wallets, tasks, escrows, transactions, ctxWallet,
                   timers, hist, delta, lastCall, nops>>

\* await createEscrow({...})
AcceptCreateEscrow(u) ==
    /\ At(u, "createEscrow")
    /\ LET t == procs[u].t
           task == procs[u].task
       IN  \E i \in 1..(Len(escrows[t]) + 1) :
              escrows' = createEscrow(escrows, t, i,
                  Escrow(t, task.requester_id, u, task.reward_amount,
                         task.commission_amount))
    /\ Goto(u, "getWallet")
    /\ UNCHANGED <<settings, accounts, checkouts, split, wallets, tasks, transactions, ctxWallet, timers,
                   hist, delta, lastCall, nops>>

\* the call has returned
AcceptReturns(u) ==
    /\ hist' = [hist EXCEPT ![procs[u].t] = Append(@, "accept")]
    /\ lastCall' = Call("acceptTask", procs[u].t, u, 0, "ok")

\* const runnerWallet = await getWallet(runnerId)
AcceptGetWallet(u) ==
    /\ At(u, "getWallet")
    /\ IF getWallet(u) = NoWallet
       THEN /\ Goto(u, "done")
            /\ AcceptReturns(u)
       ELSE /\ procs' = [procs EXCEPT ![u].pc = "updateWallet",
                                      ![u].runnerWallet = getWallet(u)]
            /\ UNCHANGED <<hist, lastCall>>
    /\ UNCHANGED <<settings, accounts, checkouts, split, wallets, tasks, escrows, transactions, ctxWallet,
                   timers, delta, nops>>

\* await updateWallet(runnerWallet.id, { escrow_balance: newEscrowBalance }, runnerId)
AcceptUpdateWallet(u) ==
    /\ At(u, "updateWallet")
    /\ LET held == holdRunnerAmount(procs[u].runnerWallet, procs[u].task.runner_amount)
           ws == [wallets EXCEPT ![u].escrow_balance = held.escrow_balance]
       IN  /\ wallets' = ws
           /\ delta' = [delta EXCEPT ![procs[u].t] =
                            @ + Circulation(ws) - Circulation(wallets)]
    /\ Goto(u, "createTransaction")
    /\ UNCHANGED <<settings, accounts, checkouts, split, tasks, escrows, transactions, ctxWallet, timers,
                   hist, lastCall, nops>>

\* await createTransaction({...}); dispatch walletUpdated for the runner
AcceptCreateTransaction(u) ==
    /\ At(u, "createTransaction")
    /\ transactions' = Append(transactions,
            Txn(u, "escrow_hold", procs[u].task.runner_amount, procs[u].t, "completed"))
    /\ ctxWallet' = Refreshed(u, {u}, wallets)
    /\ Goto(u, "done")
    /\ AcceptReturns(u)
    /\ UNCHANGED <<settings, accounts, checkouts, split, wallets, tasks, escrows, timers, delta, nops>>

NextAccept ==
    \/ \E u \in Users, r \in RewardChoices : CreateNewTask(u, r)
    \/ \E u \in Users, t \in TaskIds : AcceptCall(u, t)
    \/ \E u \in Users : AcceptUpdateTask(u)
    \/ \E u \in Users : AcceptGetTask(u)
    \/ \E u \in Users : AcceptCreateEscrow(u)
    \/ \E u \in Users : AcceptGetWallet(u)
    \/ \E u \in Users : AcceptUpdateWallet(u)
    \/ \E u \in Users : AcceptCreateTransaction(u)

SpecAccept == Init /\ [][NextAccept]_vars

----------------------------------------------------------------------------
(* The commission split of createNewTask as a function of its inputs: the    *)
(* reward of the new task, in hundredths of a naira as the requester typed   *)
(* it, and the platform's commission_percentage.                             *)

SplitRewards == {Naira(100), 10046, Naira(2000), 123457, Naira(100000)}
SplitPcts == 0..100

InitSplit ==
    /\ Init
    /\ settings.commission_percentage = 10

ReadInputs(reward, pct) ==
    /\ split = NoSplit
    /\ split' = [NoSplit EXCEPT !.reward = reward, !.pct = pct]
    /\ UNCHANGED <<settings, accounts, checkouts, wallets, tasks, escrows, transactions, ctxWallet, timers,
                   procs, hist, delta, lastCall, nops>>

ComputeSplit ==
    /\ split # NoSplit
    /\ ~split.done
    /\ LET reward == toDouble(split.reward)
           commission == commissionAmountF(reward, split.pct)
       IN  split' = [split EXCEPT !.done = TRUE,
                                  !.commission = commission,
                                  !.runner = runnerAmountF(reward, commission)]
    /\ UNCHANGED <<settings, accounts, checkouts, wallets, tasks, escrows, transactions, ctxWallet, timers,
                   procs, hist, delta, lastCall, nops>>

NextSplit ==
    \/ \E reward \in SplitRewards, pct \in SplitPcts : ReadInputs(reward, pct)
    \/ ComputeSplit

SpecSplit == InitSplit /\ [][NextSplit]_vars

----------------------------------------------------------------------------
(* PaymentProvider: deposits through the gateway's web checkout.  A          *)
(* transaction's id is its place in `transactions`; the gateway's return is  *)
(* the query string of the callback URL, an input of the handler.            *)

TxnIds == 1..Len(transactions)
NoTxn == 0

\* initiatePayment: checkoutOk is the outcome of createWebCheckout
InitiatePayment(u, amount, checkoutOk) ==
    /\ nops < MaxOps
    /\ IF invalidAmount(amount)
       THEN Throw("initiatePayment", 0, u, amount, "InvalidAmount")
       ELSE /\ transactions' = Append(transactions,
                   Txn(u, "deposit", amount, 0, IF checkoutOk THEN "pending" ELSE "failed"))
            /\ checkouts' = IF checkoutOk
                            THEN checkouts \cup {Len(transactions) + 1}
                            ELSE checkouts
            /\ lastCall' = Call("initiatePayment", 0, u, amount,
                                IF checkoutOk THEN "ok" ELSE "PaymentInitiationFailed")
            /\ nops' = nops + 1
            /\ UNCHANGED <<settings, accounts, split, wallets, tasks, escrows, ctxWallet, timers,
                           procs, hist, delta>>

\* the wallet after `balance: wallet.balance + response.amount`
creditReturn(w, amount) == [w EXCEPT !.balance = w.balance + amount]

\* the writes of processPaymentResponse in the session of u: success, orderId
\* and amount are what parsePaymentResponse reads from the return, transaction
\* is the `transaction` parameter of the callback URL
paymentResponse(u, success, orderId, amount, transaction) ==
       IF success /\ orderId # NoTxn
       THEN IF transactions[orderId].user_id = u
            THEN /\ transactions' = [transactions EXCEPT ![orderId].status = "completed"]
                 /\ wallets' = IF amount # 0 /\ getWallet(u) # NoWallet
                               THEN [wallets EXCEPT ![u] = creditReturn(@, amount)]
                               ELSE wallets
                 /\ ctxWallet' = [ctxWallet EXCEPT ![u] = wallets'[u]]
            ELSE UNCHANGED <<transactions, wallets, ctxWallet>>
       ELSE /\ transactions' = IF transaction # NoTxn
                               THEN [transactions EXCEPT ![transaction].status = "failed"]
                               ELSE transactions
            /\ UNCHANGED <<wallets, ctxWallet>>

ProcessPaymentResponse(u, success, orderId, amount, transaction) ==
    /\ nops < MaxOps
    /\ paymentResponse(u, success, orderId, amount, transaction)
    /\ lastCall' = Call("processPaymentResponse", 0, u, amount,
                        IF success THEN "ok" ELSE "failed")
    /\ nops' = nops + 1
    /\ UNCHANGED <<settings, accounts, checkouts, split, tasks, escrows, timers, procs, hist, delta>>

\* cancelPayment: the transaction of u found by its payment reference
CancelPayment(u, txn) ==
    /\ nops < MaxOps
    /\ txn \in TxnIds
    /\ transactions[txn].user_id = u
    /\ transactions' = [transactions EXCEPT ![txn].status = "cancelled"]
    /\ lastCall' = Call("cancelPayment", 0, u, 0, "ok")
    /\ nops' = nops + 1
    /\ UNCHANGED <<settings, accounts, checkouts, split, wallets, tasks, escrows, ctxWallet, timers,
                   procs, hist, delta>>

PayUsers == {"u1", "u2"}
ReturnAmounts == {0, Naira(1000), Naira(5000)}

InitPay ==
    /\ Init
    /\ settings.commission_percentage = 10

NextPay ==
    \/ \E u \in PayUsers, a \in AmountChoices, ok \in BOOLEAN : InitiatePayment(u, a, ok)
    \/ \E u \in PayUsers, success \in BOOLEAN, orderId \in TxnIds \cup {NoTxn},
          a \in ReturnAmounts, txn \in TxnIds \cup {NoTxn} :
            ProcessPaymentResponse(u, success, orderId, a, txn)
    \/ \E u \in PayUsers, txn \in TxnIds : CancelPayment(u, txn)
    \/ \E u \in PayUsers, a \in AmountChoices : Deposit(u, a)
    \/ \E tm \in timers : TimerFires(tm)

SpecPay == InitPay /\ [][NextPay]_vars

----------------------------------------------------------------------------
(* Properties of the ledger and of the task state machine *)

Terminal == {"completed", "cancelled"}

\* the step is a call of handler op on task t (whether or not it threw)
Called(op, t) == nops' = nops + 1 /\ lastCall'.op = op /\ lastCall'.task = t

\* C1: in every reachable state every wallet has balance >= 0 and
\* escrow_balance >= 0.
NoNegativeBalances ==
    \A u \in Users : wallets[u].balance >= 0 /\ wallets[u].escrow_balance >= 0

\* C2: conservation.  Once a task has run create/accept/complete the money in
\* circulation has changed, through that task, by exactly minus its
\* commission_amount; once it has run create/cancel or create/accept/cancel it
\* has not changed at all (the runner being another user than the requester).
Conservation ==
    \A t \in TaskIds :
        tasks[t].runner_id # tasks[t].requester_id
        => /\ hist[t] = <<"create", "accept", "complete">>
                 => delta[t] = - tasks[t].commission_amount
           /\ hist[t] \in {<<"create", "cancel">>, <<"create", "accept", "cancel">>}
                 => delta[t] = 0

\* C3: a completeTask on a task that is already completed, and a cancelTask on
\* a task that is already cancelled, fails and leaves the wallets and the
\* transactions as they were.
IdempotentTerminal ==
    [][\A t \in TaskIds :
          (\/ Called("completeTask", t) /\ tasks[t].status = "completed"
           \/ Called("cancelTask", t) /\ tasks[t].status = "cancelled")
          => /\ lastCall'.outcome # "ok"
             /\ wallets' = wallets
             /\ transactions' = transactions]_vars

\* C4: a task in a terminal status keeps that status for ever, and every later
\* handler call on it fails without modifying any wallet.
TerminalIsFinal ==
    [][\A t \in TaskIds :
          tasks[t].status \in Terminal
          => /\ tasks'[t].status = tasks[t].status
             /\ (nops' = nops + 1 /\ lastCall'.task = t)
                    => (lastCall'.outcome # "ok" /\ wallets' = wallets)]_vars

AllowedEdges ==
    {<<"pending", "accepted">>, <<"accepted", "in_progress">>,
     <<"accepted", "completed">>, <<"in_progress", "completed">>,
     <<"pending", "cancelled">>, <<"accepted", "cancelled">>,
     <<"in_progress", "cancelled">>}

\* C5: every change of a task's status is one of the allowed edges of the
\* state machine.
OnlyAllowedEdges ==
    [][\A t \in TaskIds :
          tasks'[t].status # tasks[t].status
          => <<tasks[t].status, tasks'[t].status>> \in AllowedEdges]_vars

\* C7: runner_id changes only from unset to set, in the step that takes the
\* task from pending to accepted.
RunnerSetOnce ==
    [][\A t \in TaskIds :
          tasks'[t].runner_id # tasks[t].runner_id
          => /\ tasks[t].runner_id = NoUser
             /\ tasks[t].status = "pending"
             /\ tasks'[t].status = "accepted"]_vars

\* C9: a createNewTask by a requester whose wallet holds at least the reward
\* succeeds, moves the reward from the requester's balance to the requester's
\* escrow_balance, leaves the other wallets alone and stores the split on the
\* task; from balance 5000 with reward 2000 at 10% the task has commission 200
\* and runner amount 1800 and the wallet ends at balance 3000, escrow 2000.
CreateHoldsReward ==
    [][\A u \in Users :
          (/\ Called("createNewTask", lastCall'.task)
           /\ lastCall'.caller = u
           /\ wallets[u] # NoWallet
           /\ wallets[u].balance >= lastCall'.arg)
          => /\ lastCall'.outcome = "ok"
             /\ Len(tasks') = Len(tasks) + 1
             /\ LET task == tasks'[Len(tasks')]
                    reward == task.reward_amount
                    pct == settings.commission_percentage
                IN  /\ task.requester_id = u
                    /\ task.status = "pending"
                    /\ reward = lastCall'.arg
                    /\ wallets'[u].balance = wallets[u].balance - reward
                    /\ wallets'[u].escrow_balance = wallets[u].escrow_balance + reward
                    /\ \A v \in Users \ {u} : wallets'[v] = wallets[v]
                    /\ task.commission_amount * 100 = reward * pct
                    /\ task.runner_amount = reward - task.commission_amount
                    /\ (wallets[u].balance = Naira(5000) /\ reward = Naira(2000) /\ pct = 10)
                          => /\ task.commission_amount = Naira(200)
                             /\ task.runner_amount = Naira(1800)
                             /\ wallets'[u].balance = Naira(3000)
                             /\ wallets'[u].escrow_balance =
                                    wallets[u].escrow_balance + Naira(2000)]_vars

\* the scenario of C9 has happened
CreateScenarioReached ==
    /\ lastCall.op = "createNewTask" /\ lastCall.outcome = "ok"
    /\ settings.commission_percentage = 10
    /\ tasks[lastCall.task].reward_amount = Naira(2000)
    /\ tasks[lastCall.task].commission_amount = Naira(200)
    /\ tasks[lastCall.task].runner_amount = Naira(1800)
    /\ wallets[lastCall.caller].balance = Naira(3000)
    /\ wallets[lastCall.caller].escrow_balance = Naira(2000)

\* an acceptTask step on a pending task by a runner who has a wallet
AcceptsPending(t, r) ==
    /\ Called("acceptTask", t)
    /\ tasks[t].status = "pending"
    /\ tasks'[t].runner_id = r
    /\ wallets[r] # NoWallet

BothAccepted(u, v, t) ==
    /\ u # v
    /\ At(u, "done") /\ At(v, "done")
    /\ procs[u].t = t /\ procs[v].t = t
    /\ procs[u].sawStatus = "pending" /\ procs[v].sawStatus = "pending"

\* C6: of two concurrent acceptTask calls by different runners on the same
\* pending task only one takes effect: the runner who is not attached to the
\* task holds nothing in escrow for it.
ConcurrentAcceptOneWinner ==
    \A u, v \in Users, t \in TaskIds :
        (BothAccepted(u, v, t) /\ tasks[t].requester_id \notin {u, v})
        => \E w \in {u, v} :
              /\ tasks[t].runner_id # w
              /\ wallets[w] # NoWallet => wallets[w].escrow_balance = 0
              /\ \A i \in 1..Len(transactions) :
                    ~(transactions[i].user_id = w /\ transactions[i].task_id = t)

\* C8: the split of a new task is exact: commission_amount + runner_amount is
\* the reward_amount, for every reward within the platform's limits and every
\* commission percentage from 0 to 100.
SplitIsExact ==
    split.done => fadd(split.commission, split.runner) = toDouble(split.reward)

\* for a reward in whole naira the binary64 split is exact and is the split of
\* the ledger in hundredths
WholeNairaSplitIsExact ==
    (split.done /\ split.reward % 100 = 0) =>
        /\ fadd(split.commission, split.runner) = toDouble(split.reward)
        /\ split.commission = toDouble(commissionAmount(split.reward, split.pct))
        /\ split.runner = toDouble(runnerAmount(split.reward,
                                   commissionAmount(split.reward, split.pct)))

\* a step that is a call of handler op on task t, the task being in one of
\* the given statuses with a runner r other than its requester q
CalledOn(op, t, statuses, q, r) ==
    /\ Called(op, t)
    /\ tasks[t].status \in statuses
    /\ tasks[t].requester_id = q
    /\ tasks[t].runner_id = r
    /\ r # NoUser /\ r # q

\* C11: completeTask on an accepted or in_progress task takes reward_amount
\* out of the requester's escrow_balance, leaving the requester's balance, and
\* moves runner_amount from the runner's escrow_balance to the runner's balance
\* and total_earned; in the scenario (5000, reward 2000, 10%, runner 1800) the
\* runner ends at balance 1800, escrow 0, earned 1800, the requester at 3000, 0.
CompleteSettles ==
    [][\A t \in TaskIds, q, r \in Users :
          CalledOn("completeTask", t, {"accepted", "in_progress"}, q, r)
          => LET reward == tasks[t].reward_amount
                 amount == tasks[t].runner_amount
             IN  /\ wallets'[q].escrow_balance = wallets[q].escrow_balance - reward
                 /\ wallets'[q].balance = wallets[q].balance
                 /\ wallets[r] # NoWallet
                    => /\ wallets'[r].escrow_balance = wallets[r].escrow_balance - amount
                       /\ wallets'[r].balance = wallets[r].balance + amount
                       /\ wallets'[r].total_earned = wallets[r].total_earned + amount
                 /\ (/\ hist[t] = <<"create", "accept">>
                     /\ q = "u1" /\ r = "u2"
                     /\ reward = Naira(2000) /\ amount = Naira(1800))
                    => /\ wallets'[r].balance = Naira(1800)
                       /\ wallets'[r].escrow_balance = 0
                       /\ wallets'[r].total_earned = Naira(1800)
                       /\ wallets'[q].balance = Naira(3000)
                       /\ wallets'[q].escrow_balance = 0]_vars

\* C12: cancelTask on an accepted task gives the requester the reward back
\* (balance up, escrow_balance down by reward_amount), releases the runner's
\* hold (escrow_balance down by runner_amount, balance as it was before the
\* acceptance) and makes the task cancelled; in the scenario the requester is
\* back at 5000, 0 and the runner at 1800, 0.
CancelAcceptedRestores ==
    [][\A t \in TaskIds, q, r \in Users :
          CalledOn("cancelTask", t, {"accepted"}, q, r)
          => LET reward == tasks[t].reward_amount
                 amount == tasks[t].runner_amount
             IN  /\ tasks'[t].status = "cancelled"
                 /\ wallets'[q].balance = wallets[q].balance + reward
                 /\ wallets'[q].escrow_balance = wallets[q].escrow_balance - reward
                 /\ wallets[r] # NoWallet
                    => /\ wallets'[r].escrow_balance = wallets[r].escrow_balance - amount
                       /\ wallets'[r].balance = wallets[r].balance
                 /\ \A v \in Users \ {q, r} : wallets'[v] = wallets[v]
                 /\ (/\ hist[t] = <<"create", "accept">>
                     /\ q = "u1" /\ r = "u2"
                     /\ wallets[q].balance = Naira(3000) /\ reward = Naira(2000)
                     /\ amount = Naira(1800))
                    => /\ wallets'[q].balance = Naira(5000)
                       /\ wallets'[q].escrow_balance = 0
                       /\ wallets'[r].balance = Naira(1800)
                       /\ wallets'[r].escrow_balance = 0]_vars

\* the scenario of C12 has happened
CancelScenarioReached ==
    /\ lastCall.op = "cancelTask"
    /\ hist[lastCall.task] = <<"create", "accept", "cancel">>
    /\ settings.commission_percentage = 10
    /\ tasks[lastCall.task].status = "cancelled"
    /\ tasks[lastCall.task].runner_id = "u2"
    /\ wallets["u1"].balance = Naira(5000) /\ wallets["u1"].escrow_balance = 0
    /\ wallets["u2"].balance = Naira(1800) /\ wallets["u2"].escrow_balance = 0

\* C13: cancelTask on a pending task refunds the requester's hold: balance up
\* and escrow_balance down by reward_amount.
CancelPendingRefunds ==
    [][\A t \in TaskIds :
          (Called("cancelTask", t) /\ tasks[t].status = "pending")
          => LET q == tasks[t].requester_id IN
             /\ wallets'[q].balance = wallets[q].balance + tasks[t].reward_amount
             /\ wallets'[q].escrow_balance
                    = wallets[q].escrow_balance - tasks[t].reward_amount]_vars

\* C14: a createNewTask by a requester whose balance is smaller than the
\* reward fails with the insufficient-funds error, and writes no task, no
\* transaction and no escrow and leaves every wallet as it was.
CreateRejectsInsufficient ==
    [][\A u \in Users :
          (/\ nops' = nops + 1
           /\ lastCall'.op = "createNewTask" /\ lastCall'.caller = u
           /\ wallets[u] # NoWallet
           /\ wallets[u].balance < lastCall'.arg)
          => /\ lastCall'.outcome = "InsufficientFunds"
             /\ tasks' = tasks
             /\ transactions' = transactions
             /\ escrows' = escrows
             /\ wallets' = wallets]_vars

\* a createNewTask was refused for lack of funds
InsufficientReached ==
    /\ lastCall.op = "createNewTask"
    /\ lastCall.outcome = "InsufficientFunds"
    /\ wallets[lastCall.caller] # NoWallet
    /\ wallets[lastCall.caller].balance > 0
    /\ wallets[lastCall.caller].balance < lastCall.arg
    /\ tasks = <<>>

\* C15: an escrow's status is monotonic: once it is released or refunded the
\* record is never written again, so it is closed at most once and a second
\* closing does not go through.
EscrowClosedOnce ==
    [][\A t \in TaskIds :
          Len(escrows'[t]) = Len(escrows[t])
          => \A i \in 1..Len(escrows[t]) :
                escrows[t][i].status # "active" => escrows'[t][i] = escrows[t][i]]_vars

\* C16: in every reachable state a task has at most one active escrow.
OneActiveEscrow ==
    \A t \in TaskIds :
        Cardinality({i \in 1..Len(escrows[t]) : escrows[t][i].status = "active"}) <= 1

\* C17: a transaction's status changes at most once, from pending to
\* completed, failed or cancelled, and its amount and type never change.
TransactionSettlesOnce ==
    [][\A i \in TxnIds :
          /\ transactions'[i].amount = transactions[i].amount
          /\ transactions'[i].type = transactions[i].type
          /\ transactions'[i].status # transactions[i].status
             => /\ transactions[i].status = "pending"
                /\ transactions'[i].status \in {"completed", "failed", "cancelled"}]_vars

\* C18: wallet mutations of a user are serialized.  When the completion of a
\* deposit or of a withdrawal is applied, the wallet becomes what it was just
\* before, with the amount added to or taken from its balance: whatever other
\* operation ran since the deposit or withdrawal was requested is kept.
WalletUpdatesSerialized ==
    [][\A tm \in timers :
          timers' = timers \ {tm}
          => LET w == wallets[tm.user] IN
             wallets'[tm.user] =
                [w EXCEPT !.balance = IF tm.kind = "deposit"
                                      THEN w.balance + tm.amount
                                      ELSE w.balance - tm.amount]]_vars

----------------------------------------------------------------------------
(* A store write that rejects.  Each handler awaits its writes one after    *)
(* the other with no transaction or batch around them; when the k-th write  *)
(* rejects, the writes before it stay in the store and the ones after it    *)
(* are never issued.                                                        *)

WriteFailed == "WriteFailed"

\* the handler stopped at a rejected write, leaving tasks, wallets,
\* transactions and escrows as given
Stopped(op, t, caller, arg, ts, ws, txs, es) ==
    /\ tasks' = ts
    /\ wallets' = ws
    /\ transactions' = txs
    /\ escrows' = es
    /\ lastCall' = Call(op, t, caller, arg, WriteFailed)
    /\ nops' = nops + 1
    /\ UNCHANGED <<settings, accounts, checkouts, split, ctxWallet, timers, procs>>

\* createNewTask: 1 createTask, 2 updateWallet, 3 createTransaction,
\* 4 createEscrow; the catch around 2..4 rethrows and undoes nothing
CreateNewTaskFails(caller, reward, k) ==
    /\ nops < MaxOps
    /\ Len(tasks) < MaxTasks
    /\ getWallet(caller) # NoWallet
    /\ ~insufficientBalance(getWallet(caller), reward)
    /\ LET userWallet == getWallet(caller)
           t == Len(tasks) + 1
           doc == newTaskDoc(caller, reward, settings.commission_percentage)
           ws == IF k > 2
                 THEN [wallets EXCEPT ![caller] = holdReward(userWallet, reward)]
                 ELSE wallets
       IN  IF k = 1
           THEN Throw("createNewTask", 0, caller, reward, WriteFailed)
           ELSE /\ Stopped("createNewTask", t, caller, reward,
                       Append(tasks, doc), ws,
                       IF k > 3
                       THEN Append(transactions,
                               Txn(caller, "task_payment", reward, t, "completed"))
                       ELSE transactions,
                       Append(escrows, <<>>))
                /\ hist' = Append(hist, <<"create">>)
                /\ delta' = Append(delta, Circulation(ws) - Circulation(wallets))

\* acceptTask: 1 updateTask, 2 createEscrow, 3 updateWallet,
\* 4 createTransaction; nothing is caught
AcceptTaskFails(caller, t, runnerId, k) ==
    /\ nops < MaxOps
    /\ t \in TaskIds
    /\ k > 2 => getWallet(runnerId) # NoWallet
    /\ LET ts == acceptUpdate(tasks, t, runnerId)
           task == ts[t]
           ws == IF k > 3
                 THEN [wallets EXCEPT ![runnerId] =
                            holdRunnerAmount(getWallet(runnerId), task.runner_amount)]
                 ELSE wallets
       IN  IF k = 1
           THEN Throw("acceptTask", t, caller, 0, WriteFailed)
           ELSE /\ \E i \in 1..(Len(escrows[t]) + 1) :
                      Stopped("acceptTask", t, caller, 0, ts, ws, transactions,
                          IF k > 2
                          THEN createEscrow(escrows, t, i,
                                  Escrow(t, task.requester_id, runnerId,
                                         task.reward_amount, task.commission_amount))
                          ELSE escrows)
                /\ Record("accept", t, ws)

\* completeTask: 1 updateTask, 2 updateWallet of the requester,
\* 3 updateWallet of the runner, 4 createTransaction of the earning (the
\* escrow_release record is created alongside it); nothing is caught
CompleteTaskFails(caller, t, k) ==
    /\ nops < MaxOps
    /\ t \in TaskIds
    /\ LET task == tasks[t]
           settle == /\ task.runner_id # NoUser
                     /\ task.runner_amount > 0
                     /\ getWallet(task.requester_id) # NoWallet
                     /\ getWallet(task.runner_id) # NoWallet
           w1 == [wallets EXCEPT ![task.requester_id] =
                       releaseRequesterHold(@, task.reward_amount)]
           ws == IF k = 2 THEN wallets
                 ELSE IF k = 3 THEN w1
                 ELSE completeWallets(wallets, task)
       IN  IF k = 1
           THEN Throw("completeTask", t, caller, 0, WriteFailed)
           ELSE /\ settle
                /\ Stopped("completeTask", t, caller, 0,
                       updateTaskStatus(tasks, t, "completed"), ws,
                       IF k > 3
                       THEN Append(transactions,
                               Txn(task.requester_id, "escrow_release",
                                   task.reward_amount, t, "completed"))
                       ELSE transactions,
                       escrows)
                /\ Record("complete", t, ws)

\* cancelTask on an accepted task with an escrow: 1 updateTask, 2 updateWallet
\* of the requester, 3 createTransaction of the refund, 4 updateWallet of the
\* runner.  The catch around 2..4 logs the error and the call returns.
CancelTaskFails(caller, t, k) ==
    /\ nops < MaxOps
    /\ t \in TaskIds
    /\ LET task == tasks[t]
           found == getEscrowsByTaskId(escrows, t)
           ws == IF k > 2
                 THEN [wallets EXCEPT ![task.requester_id] =
                            refundRequester(@, found[1].amount)]
                 ELSE wallets
       IN  IF k = 1
           THEN Throw("cancelTask", t, caller, 0, WriteFailed)
           ELSE /\ task.runner_id # NoUser /\ task.status = "accepted"
                /\ Len(found) > 0
                /\ getWallet(task.requester_id) # NoWallet
                /\ k > 3 => getWallet(task.runner_id) # NoWallet
                /\ Stopped("cancelTask", t, caller, 0,
                       updateTaskStatus(tasks, t, "cancelled"), ws,
                       IF k > 3
                       THEN Append(transactions,
                               Txn(task.requester_id, "refund", found[1].amount,
                                   t, "completed"))
                       ELSE transactions,
                       escrows)
                /\ Record("cancel", t, ws)

FailPoints == 1..4

\* a failing acceptTask is called as TaskDetailsPage.handleAcceptTask calls it,
\* with runnerId = the caller

NextFail ==
    \/ \E u \in Users, r \in RewardChoices : CreateNewTask(u, r)
    \/ \E u \in Users, t \in TaskIds, r \in Users : AcceptTask(u, t, r)
    \/ \E u \in Users, t \in TaskIds : CompleteTask(u, t)
    \/ \E u \in Users, t \in TaskIds : CancelTask(u, t)
    \/ \E u \in Users, r \in RewardChoices, k \in FailPoints : CreateNewTaskFails(u, r, k)
    \/ \E u \in Users, t \in TaskIds, k \in FailPoints : AcceptTaskFails(u, t, u, k)
    \/ \E u \in Users, t \in TaskIds, k \in FailPoints : CompleteTaskFails(u, t, k)
    \/ \E u \in Users, t \in TaskIds, k \in FailPoints : CancelTaskFails(u, t, k)

SpecFail == Init /\ [][NextFail]_vars

\* C19: a call of createNewTask, acceptTask, completeTask or cancelTask in
\* which a store write fails leaves every wallet as it was before the call.
FailureLeavesWallets ==
    [][(nops' = nops + 1 /\ lastCall'.outcome = WriteFailed) => wallets' = wallets]_vars

\* C20: a deposit creates a pending transaction and leaves the wallet alone;
\* when its transaction becomes completed the owner's balance goes up by the
\* transaction's amount; when it becomes failed no wallet changes.
DepositSettles ==
    [][/\ (/\ nops' = nops + 1
           /\ lastCall'.op \in {"deposit", "initiatePayment"}
           /\ lastCall'.outcome = "ok")
          => /\ Len(transactions') = Len(transactions) + 1
             /\ transactions'[Len(transactions')] =
                    Txn(lastCall'.caller, "deposit", lastCall'.arg, 0, "pending")
             /\ wallets' = wallets
       /\ \A i \in TxnIds :
             (transactions[i].type = "deposit" /\ transactions[i].status = "pending")
             => LET u == transactions[i].user_id IN
                /\ transactions'[i].status = "completed"
                   => wallets'[u].balance = wallets[u].balance + transactions[i].amount
                /\ transactions'[i].status = "failed" => wallets' = wallets
       /\ (/\ Len(transactions') = Len(transactions) + 1
           /\ transactions'[Len(transactions')].status = "failed")
          => wallets' = wallets]_vars

\* C21: a withdraw of more than the wallet's balance fails with
\* InsufficientFunds, creating no transaction and changing no wallet; an
\* accepted withdrawal, when it is processed, lowers the balance by exactly
\* its amount.
WithdrawChecked ==
    [][/\ (/\ nops' = nops + 1
           /\ lastCall'.op = "withdraw"
           /\ wallets[lastCall'.caller] # NoWallet
           /\ lastCall'.arg > 0
           /\ lastCall'.arg > wallets[lastCall'.caller].balance)
          => /\ lastCall'.outcome = "InsufficientFunds"
             /\ transactions' = transactions
             /\ wallets' = wallets
       /\ \A tm \in timers :
             (tm.kind = "withdraw" /\ timers' = timers \ {tm})
             => wallets'[tm.user].balance = wallets[tm.user].balance - tm.amount]_vars

\* C22: completeTask called by anyone but the task's requester, and cancelTask
\* called by anyone but its requester or assigned runner, fail with
\* Unauthorized and leave the task's status and every wallet unchanged.
UnauthorizedRejected ==
    [][(/\ nops' = nops + 1
        /\ lastCall'.task \in TaskIds
        /\ LET task == tasks[lastCall'.task] IN
           \/ /\ lastCall'.op = "completeTask"
              /\ lastCall'.caller # task.requester_id
           \/ /\ lastCall'.op = "cancelTask"
              /\ lastCall'.caller \notin {task.requester_id, task.runner_id})
       => /\ lastCall'.outcome = "Unauthorized"
          /\ tasks'[lastCall'.task].status = tasks[lastCall'.task].status
          /\ wallets' = wallets]_vars

\* C23: cancelTask on an in_progress task reverses both holds as for an
\* accepted one: the requester gets reward_amount back from escrow_balance to
\* balance, runner_amount leaves the runner's escrow_balance, and an escrow of
\* the task becomes refunded.
CancelInProgressReverses ==
    [][\A t \in TaskIds, q, r \in Users :
          CalledOn("cancelTask", t, {"in_progress"}, q, r)
          => LET reward == tasks[t].reward_amount
                 amount == tasks[t].runner_amount
             IN  /\ wallets'[q].balance = wallets[q].balance + reward
                 /\ wallets'[q].escrow_balance = wallets[q].escrow_balance - reward
                 /\ wallets[r] # NoWallet
                    => wallets'[r].escrow_balance = wallets[r].escrow_balance - amount
                 /\ \E i \in 1..Len(escrows'[t]) : escrows'[t][i].status = "refunded"]_vars

\* C24: when completeTask or cancelTask has finished on a task, none of the
\* task's escrow records is active any more: they are released after a
\* completion and refunded after a cancellation.
EscrowClosedAtEnd ==
    [][\A t \in TaskIds :
          /\ (Called("completeTask", t) /\ lastCall'.outcome = "ok")
             => \A i \in 1..Len(escrows'[t]) : escrows'[t][i].status = "released"
          /\ (Called("cancelTask", t) /\ lastCall'.outcome = "ok")
             => \A i \in 1..Len(escrows'[t]) : escrows'[t][i].status = "refunded"]_vars

----------------------------------------------------------------------------
(* createNewTask with rewards on both sides of the platform's limits *)

\* below minimum_task_amount, within the limits, above maximum_task_amount
LimitRewards == {Naira(50), Naira(2000), Naira(200000)}

NextLimits ==
    \/ \E u \in Users, r \in LimitRewards : CreateNewTask(u, r)
    \/ \E u \in Users, t \in TaskIds, r \in Users : AcceptTask(u, t, r)
    \/ \E u \in Users, t \in TaskIds : StartTask(u, t)
    \/ \E u \in Users, t \in TaskIds : CompleteTask(u, t)
    \/ \E u \in Users, t \in TaskIds : CancelTask(u, t)

SpecLimits == Init /\ [][NextLimits]_vars

\* C25: createNewTask with a reward below minimum_task_amount or above
\* maximum_task_amount is rejected, writes no task and changes no wallet.
CreateRejectsOutOfRange ==
    [][(/\ nops' = nops + 1
        /\ lastCall'.op = "createNewTask"
        /\ \/ lastCall'.arg < settings.minimum_task_amount
           \/ lastCall'.arg > settings.maximum_task_amount)
       => /\ lastCall'.outcome # "ok"
          /\ tasks' = tasks
          /\ wallets' = wallets]_vars

\* C26: acceptTask called by the task's own requester is rejected with the
\* task and every wallet unchanged, and no task ever gets a runner_id equal to
\* its requester_id.
NoSelfAccept ==
    [][\A t \in TaskIds :
          /\ (Called("acceptTask", t) /\ lastCall'.caller = tasks[t].requester_id)
             => /\ lastCall'.outcome # "ok"
                /\ tasks' = tasks
                /\ wallets' = wallets
          /\ tasks'[t].runner_id # tasks'[t].requester_id]_vars

\* C27: startTask called by anyone but the task's assigned runner fails, also
\* when the task has no runner, and leaves the task's status as it was.
StartRejectsOthers ==
    [][\A t \in TaskIds :
          (Called("startTask", t) /\ lastCall'.caller # tasks[t].runner_id)
          => /\ lastCall'.outcome # "ok"
             /\ tasks'[t].status = tasks[t].status]_vars

\* a startTask on a task without a runner has just been refused
StartRefusedReached ==
    /\ lastCall.op = "startTask"
    /\ lastCall.outcome = "Unauthorized"
    /\ tasks[lastCall.task].runner_id = NoUser
    /\ tasks[lastCall.task].status = "pending"

\* C28: startTask has no ledger effect: every wallet, transaction and escrow
\* is left as it was, and a start that goes through changes nothing of the
\* task but its status, which becomes in_progress.
StartHasNoLedgerEffect ==
    [][\A t \in TaskIds :
          Called("startTask", t)
          => /\ wallets' = wallets
             /\ transactions' = transactions
             /\ escrows' = escrows
             /\ lastCall'.outcome = "ok"
                => tasks' = [tasks EXCEPT ![t].status = "in_progress"]]_vars

\* the assigned runner has just started a task on which both holds stand
StartedWithHoldsReached ==
    /\ lastCall.op = "startTask"
    /\ lastCall.outcome = "ok"
    /\ hist[lastCall.task] = <<"create", "accept", "start">>
    /\ tasks[lastCall.task].status = "in_progress"
    /\ tasks[lastCall.task].runner_id = "u2"
    /\ wallets["u1"].escrow_balance = Naira(2000)
    /\ wallets["u2"].escrow_balance = Naira(1800)

\* C29: a deposit or a payment initiation with an amount <= 0 is rejected
\* before anything is written: no transaction is created, no timer is armed
\* and no wallet changes.
InvalidAmountRejected ==
    [][(/\ nops' = nops + 1
        /\ lastCall'.op \in {"deposit", "initiatePayment"}
        /\ lastCall'.arg <= 0)
       => /\ lastCall'.outcome # "ok"
          /\ transactions' = transactions
          /\ timers' = timers
          /\ wallets' = wallets]_vars

\* a payment initiation with a negative amount has just been refused, the
\* user having a deposit pending from before
InvalidAmountReached ==
    /\ lastCall.op = "initiatePayment"
    /\ lastCall.outcome = "InvalidAmount"
    /\ lastCall.arg < 0
    /\ Len(transactions) = 1
    /\ transactions[1].user_id = lastCall.caller
    /\ transactions[1].status = "pending"

----------------------------------------------------------------------------
(* WalletProvider: payForTask and receivePayment.  Both compute the fields  *)
(* they write from the `wallet` state of the session, not from the stored   *)
(* wallet.                                                                  *)

\* the fields payForTask writes
taskPayment(w, amount) ==
    [balance |-> w.balance - amount,
     escrow_balance |-> w.escrow_balance + amount,
     total_spent |-> w.total_spent + amount]

\* the fields receivePayment writes
taskEarning(w, amount) ==
    [balance |-> w.balance + amount,
     total_earned |-> w.total_earned + amount]

\* createTransaction, updateWallet, refreshWallet
WalletWrite(op, type, u, t, amount, updates) ==
    /\ transactions' = Append(transactions, Txn(u, type, amount, t, "completed"))
    /\ wallets' = [wallets EXCEPT ![u] = Merge(@, updates)]
    /\ ctxWallet' = [ctxWallet EXCEPT ![u] = wallets'[u]]
    /\ lastCall' = Call(op, t, u, amount, "ok")
    /\ nops' = nops + 1
    /\ UNCHANGED <<settings, accounts, checkouts, split, tasks, escrows, timers, procs, hist, delta>>

PayForTask(u, t, amount) ==
    /\ nops < MaxOps
    /\ IF ctxWallet[u] = NoWallet
       THEN Throw("payForTask", t, u, amount, "NoWallet")
       ELSE IF amount > ctxWallet[u].balance
       THEN Throw("payForTask", t, u, amount, "InsufficientFunds")
       ELSE WalletWrite("payForTask", "task_payment", u, t, amount,
                        taskPayment(ctxWallet[u], amount))

ReceivePayment(u, t, amount) ==
    /\ nops < MaxOps
    /\ IF ctxWallet[u] = NoWallet
       THEN Throw("receivePayment", t, u, amount, "NoWallet")
       ELSE WalletWrite("receivePayment", "task_earning", u, t, amount,
                        taskEarning(ctxWallet[u], amount))

\* the amounts of the direct wallet operations
PaymentChoices == {Naira(1000)}

\* the task lifecycle together with the wallet operations of each session
NextLedger ==
    \/ \E u \in Users, r \in RewardChoices : CreateNewTask(u, r)
    \/ \E u \in Users, t \in TaskIds, r \in Users : AcceptTask(u, t, r)
    \/ \E u \in Users, t \in TaskIds : CompleteTask(u, t)
    \/ \E u \in Users, t \in TaskIds : CancelTask(u, t)
    \/ \E u \in Users, t \in TaskIds, a \in PaymentChoices : PayForTask(u, t, a)
    \/ \E u \in Users, t \in TaskIds, a \in PaymentChoices : ReceivePayment(u, t, a)
    \/ \E u \in Users : RefreshWallet(u)

SpecLedger == Init /\ [][NextLedger]_vars

\* C30: total_earned and total_spent of a wallet never decrease, whatever the
\* operations and however they overlap on the wallet.
CountersNeverDecrease ==
    [][\A u \in Users :
          /\ wallets'[u].total_earned >= wallets[u].total_earned
          /\ wallets'[u].total_spent >= wallets[u].total_spent]_vars

----------------------------------------------------------------------------
(* Platform settings: updatePlatformSettings merges whatever it is given    *)
(* into the settings document.                                              *)

UpdatePlatformSettings(pct) ==
    /\ nops < MaxOps
    /\ settings' = [settings EXCEPT !.commission_percentage = pct]
    /\ lastCall' = Call("updatePlatformSettings", 0, NoUser, pct, "ok")
    /\ nops' = nops + 1
    /\ UNCHANGED <<split, accounts, checkouts, wallets, tasks, escrows, transactions, ctxWallet, timers,
                   procs, hist, delta>>

\* below the range, inside it, above it
SettingPcts == {0 - 10, 50, 150}

NextSettings ==
    \/ \E p \in SettingPcts : UpdatePlatformSettings(p)
    \/ \E u \in Users, r \in RewardChoices : CreateNewTask(u, r)
    \/ \E u \in Users, t \in TaskIds, r \in Users : AcceptTask(u, t, r)
    \/ \E u \in Users, t \in TaskIds : CompleteTask(u, t)

SpecSettings == Init /\ [][NextSettings]_vars

\* C31: createNewTask fails with InvalidSettings when commission_percentage is
\* outside [0, 100], and no task has a negative runner_amount or a
\* commission_amount above its reward_amount.
SplitRejectsBadPercentage ==
    [][/\ (/\ nops' = nops + 1
           /\ lastCall'.op = "createNewTask"
           /\ settings.commission_percentage \notin 0..100)
          => /\ lastCall'.outcome = "InvalidSettings"
             /\ tasks' = tasks
       /\ \A t \in 1..Len(tasks') :
             /\ tasks'[t].runner_amount >= 0
             /\ tasks'[t].commission_amount <= tasks'[t].reward_amount]_vars

----------------------------------------------------------------------------
(* Onboarding: signUp, the profile load of a sign-in, and the wallet setup  *)
(* page.  createWallet adds a document with a fresh id to the wallets       *)
(* collection; getWallet returns the first document of the user_id query.   *)

\* nobody has signed up yet
InitAccounts ==
    /\ settings = defaultSettings
    /\ accounts = [u \in Users |-> Account(FALSE, 0)]
    /\ wallets = [u \in Users |-> NoWallet]
    /\ tasks = <<>>
    /\ escrows = <<>>
    /\ transactions = <<>>
    /\ ctxWallet = wallets
    /\ timers = {}
    /\ procs = [u \in Users |-> IdleProc]
    /\ hist = <<>>
    /\ delta = <<>>
    /\ lastCall = NoCall
    /\ nops = 0
    /\ split = NoSplit
    /\ checkouts = {}

\* createWallet({user_id, balance: 0, escrow_balance: 0, total_earned: 0,
\* total_spent: 0}): one more document for the user
createWallet(acc, u) == [acc EXCEPT ![u].walletDocs = @ + 1]

\* the wallet getWallet returns once the document has been added
firstWallet(ws, u) ==
    IF ws[u] = NoWallet THEN [ws EXCEPT ![u] = NewWallet(u, 0)] ELSE ws

\* the step of an onboarding handler that does not touch the ledger
Onboarding(op, u, outcome) ==
    /\ lastCall' = Call(op, 0, u, 0, outcome)
    /\ nops' = nops + 1
    /\ UNCHANGED <<settings, checkouts, split, tasks, escrows, transactions, timers,
                   procs, hist, delta>>

\* createUserWithEmailAndPassword rejects an address already in use
SignUp(u) ==
    /\ nops < MaxOps
    /\ IF accounts[u].registered
       THEN Throw("signUp", 0, u, 0, "EmailInUse")
       ELSE /\ accounts' = createWallet([accounts EXCEPT ![u].registered = TRUE], u)
            /\ wallets' = firstWallet(wallets, u)
            /\ ctxWallet' = ctxWallet
            /\ Onboarding("signUp", u, "ok")

\* onAuthStateChanged: the listener is the one of the first render, whose
\* `user` is null, so the branch creating a profile and a wallet is not taken
LoadUserProfile(u) ==
    /\ nops < MaxOps
    /\ accounts[u].registered
    /\ UNCHANGED <<accounts, wallets, ctxWallet>>
    /\ Onboarding("loadUserProfile", u, "ok")

\* WalletSetupPage: createWallet, then refreshWallet
HandleCreateWallet(u) ==
    /\ nops < MaxOps
    /\ accounts[u].registered
    /\ accounts' = createWallet(accounts, u)
    /\ wallets' = firstWallet(wallets, u)
    /\ ctxWallet' = [ctxWallet EXCEPT ![u] = wallets'[u]]
    /\ Onboarding("handleCreateWallet", u, "ok")

NextAccounts ==
    \/ \E u \in Users : SignUp(u)
    \/ \E u \in Users : LoadUserProfile(u)
    \/ \E u \in Users : HandleCreateWallet(u)
    \/ \E u \in Users : RefreshWallet(u)

SpecAccounts == InitAccounts /\ [][NextAccounts]_vars

\* C32: the wallets collection holds at most one document per user, created
\* with balance, escrow_balance, total_earned and total_spent all zero.
OneWalletPerUser ==
    \A u \in Users :
        /\ accounts[u].walletDocs <= 1
        /\ accounts[u].walletDocs > 0 => wallets[u] = NewWallet(u, 0)

----------------------------------------------------------------------------
(* The gateway's return.  The browser comes back from the gateway on the    *)
(* callback URL with the outcome; PaymentCallbackPage hands the return to   *)
(* processPaymentResponse only when its status is success.                  *)

GatewayOutcomes == {"success", "failed", "cancelled"}

GatewayReturns(i, outcome) ==
    /\ i \in checkouts
    /\ checkouts' = checkouts \ {i}
    /\ LET u == transactions[i].user_id IN
       /\ IF outcome = "success"
          THEN paymentResponse(u, TRUE, i, transactions[i].amount, i)
          ELSE UNCHANGED <<transactions, wallets, ctxWallet>>
       /\ lastCall' = Call("processPaymentCallback", 0, u, i, outcome)
    /\ UNCHANGED <<settings, accounts, split, tasks, escrows, timers, procs, hist,
                   delta, nops>>

NextLive ==
    \/ \E u \in PayUsers, a \in AmountChoices, ok \in BOOLEAN : InitiatePayment(u, a, ok)
    \/ \E u \in PayUsers, a \in AmountChoices : Deposit(u, a)
    \/ \E u \in PayUsers, a \in AmountChoices : Withdraw(u, a)
    \/ \E tm \in timers : TimerFires(tm)
    \/ \E i \in checkouts, o \in GatewayOutcomes : GatewayReturns(i, o)

\* every armed timer fires and every checkout gets its return
SpecLive ==
    /\ InitPay
    /\ [][NextLive]_vars
    /\ WF_vars(\E tm \in timers : TimerFires(tm))
    /\ WF_vars(\E i \in checkouts, o \in GatewayOutcomes : GatewayReturns(i, o))

\* C33: every transaction created pending eventually becomes completed,
\* failed or cancelled, timers firing and the gateway returning.
PendingSettles ==
    \A i \in 1..MaxOps :
        (i \in TxnIds /\ transactions[i].status = "pending")
        ~> (i \in TxnIds /\ transactions[i].status \in {"completed", "failed", "cancelled"})

\* what task t keeps held in the escrow_balance of user u
heldFor(t, u) ==
    (IF tasks[t].requester_id = u /\ tasks[t].status \in {"pending", "accepted", "in_progress"}
     THEN tasks[t].reward_amount ELSE 0)
    + (IF tasks[t].runner_id = u /\ tasks[t].status \in {"accepted", "in_progress"}
       THEN tasks[t].runner_amount ELSE 0)

\* C34: escrow backing.  Between handler calls each user's escrow_balance is
\* the sum of reward_amount over the user's open tasks as requester and of
\* runner_amount over the user's accepted or in_progress tasks as runner.
EscrowBacked ==
    \A u \in Users :
        wallets[u].escrow_balance = SumOver(TaskIds, [t \in TaskIds |-> heldFor(t, u)])

----------------------------------------------------------------------------
(* completeTask and cancelTask overlapping on one task.  Each handler reads *)
(* the task with getTask, awaits, and does the rest with the task it read;  *)
(* the sessions of two users may both have read before either writes.       *)

\* const task = await getTask(taskId) of completeTask
CompleteCall(u, t) ==
    /\ nops < MaxOps
    /\ At(u, "idle")
    /\ t \in TaskIds
    /\ procs' = [procs EXCEPT ![u] =
                    [IdleProc EXCEPT !.pc = "completing", !.t = t, !.task = tasks[t],
                                     !.sawStatus = tasks[t].status]]
    /\ nops' = nops + 1
    /\ UNCHANGED <<settings, accounts, checkouts, split, wallets, tasks, escrows, transactions, ctxWallet,
                   timers, hist, delta, lastCall>>

\* the rest of completeTask, from updateTaskStatus on, with the task read
CompleteSettle(u) ==
    /\ At(u, "completing")
    /\ LET t == procs[u].t
           task == procs[u].task
           settle == /\ task.runner_id # NoUser
                     /\ task.runner_amount > 0
                     /\ getWallet(task.requester_id) # NoWallet
                     /\ getWallet(task.runner_id) # NoWallet
           ws == IF settle THEN completeWallets(wallets, task) ELSE wallets
       IN  /\ tasks' = updateTaskStatus(tasks, t, "completed")
           /\ wallets' = ws
           /\ transactions' =
                  IF settle
                  THEN transactions \o
                       << Txn(task.runner_id, "task_earning", task.runner_amount, t, "completed"),
                          Txn(task.requester_id, "escrow_release", task.reward_amount, t, "completed") >>
                  ELSE transactions
           /\ escrows' = IF settle THEN closeEscrow(escrows, t, "released") ELSE escrows
           /\ ctxWallet' = IF settle
                           THEN Refreshed(u, {task.runner_id, task.requester_id}, ws)
                           ELSE ctxWallet
           /\ Record("complete", t, ws)
           /\ lastCall' = Call("completeTask", t, u, 0, "ok")
    /\ Goto(u, "idle")
    /\ UNCHANGED <<settings, accounts, checkouts, split, timers, nops>>

\* const task = await getTask(taskId) of cancelTask
CancelCall(u, t) ==
    /\ nops < MaxOps
    /\ At(u, "idle")
    /\ t \in TaskIds
    /\ procs' = [procs EXCEPT ![u] =
                    [IdleProc EXCEPT !.pc = "cancelling", !.t = t, !.task = tasks[t],
                                     !.sawStatus = tasks[t].status]]
    /\ nops' = nops + 1
    /\ UNCHANGED <<settings, accounts, checkouts, split, wallets, tasks, escrows, transactions, ctxWallet,
                   timers, hist, delta, lastCall>>

\* the rest of cancelTask, from updateTaskStatus on, with the task read
CancelSettle(u) ==
    /\ At(u, "cancelling")
    /\ LET t == procs[u].t
           task == procs[u].task
           refund == task.runner_id # NoUser /\ task.status = "accepted"
           found == getEscrowsByTaskId(escrows, t)
           requesterOk == Len(found) > 0 /\ getWallet(task.requester_id) # NoWallet
           runnerOk == /\ Len(found) > 0 => requesterOk
                       /\ getWallet(task.runner_id) # NoWallet
           ws == IF refund THEN cancelWallets(wallets, escrows, task, t) ELSE wallets
       IN  /\ tasks' = updateTaskStatus(tasks, t, "cancelled")
           /\ wallets' = ws
           /\ transactions' =
                  IF refund
                  THEN transactions
                       \o (IF requesterOk
                           THEN <<Txn(task.requester_id, "refund", found[1].amount, t, "completed")>>
                           ELSE <<>>)
                       \o (IF runnerOk
                           THEN <<Txn(task.runner_id, "escrow_release", task.runner_amount, t, "completed")>>
                           ELSE <<>>)
                  ELSE transactions
           /\ escrows' = IF refund /\ requesterOk
                         THEN closeEscrow(escrows, t, "refunded")
                         ELSE escrows
           /\ ctxWallet' =
                  IF refund
                  THEN Refreshed(u,
                          (IF requesterOk THEN {task.requester_id} ELSE {})
                          \cup (IF runnerOk THEN {task.runner_id} ELSE {}), ws)
                  ELSE ctxWallet
           /\ Record("cancel", t, ws)
           /\ lastCall' = Call("cancelTask", t, u, 0, "ok")
    /\ Goto(u, "idle")
    /\ UNCHANGED <<settings, accounts, checkouts, split, timers, nops>>

NextSettle ==
    \/ \E u \in Users, r \in RewardChoices : CreateNewTask(u, r)
    \/ \E u \in Users, t \in TaskIds, r \in Users : AcceptTask(u, t, r)
    \/ \E u \in Users, t \in TaskIds : CompleteCall(u, t)
    \/ \E u \in Users : CompleteSettle(u)
    \/ \E u \in Users, t \in TaskIds : CancelCall(u, t)
    \/ \E u \in Users : CancelSettle(u)

SpecSettle == Init /\ [][NextSettle]_vars

\* the transactions of a type recorded for task t
txnsOf(t, type) ==
    {i \in TxnIds : transactions[i].task_id = t /\ transactions[i].type = type}

\* C35: a task's held funds are settled at most once.  With completeTask and
\* cancelTask overlapping on one accepted task, no task has both a
\* task_earning credited to its runner and a refund credited to its requester.
SettledOnce ==
    \A t \in TaskIds : txnsOf(t, "task_earning") = {} \/ txnsOf(t, "refund") = {}

\* C36: a successful payment return is credited at most once.  A successful
\* processPaymentResponse that changes no transaction, its order being
\* completed already, increases no wallet balance.
ReturnCreditedOnce ==
    [][(/\ lastCall'.op = "processPaymentResponse"
        /\ lastCall'.outcome = "ok"
        /\ nops' = nops + 1
        /\ transactions' = transactions)
       => \A u \in Users : wallets'[u].balance <= wallets[u].balance]_vars

\* C37: a pending deposit completed by a payment return is credited with the
\* amount recorded on the transaction.  When a processPaymentResponse step
\* turns transaction i from pending to completed, the balance of its user
\* grows by exactly transactions[i].amount, whatever amount the return carries.
ReturnCreditsRecordedAmount ==
    [][\A i \in TxnIds :
          (/\ lastCall'.op = "processPaymentResponse"
           /\ nops' = nops + 1
           /\ transactions[i].type = "deposit"
           /\ transactions[i].status = "pending"
           /\ transactions'[i].status = "completed")
          => wallets'[transactions[i].user_id].balance
                = wallets[transactions[i].user_id].balance + transactions[i].amount]_vars

----------------------------------------------------------------------------
(* Withdrawals overlapping: a second withdraw is called while the timer of  *)
(* the first has not fired yet.                                             *)

WithdrawOverlapping(u, amount) ==
    /\ nops < MaxOps
    /\ Cardinality(timers) < MaxPending
    /\ withdraw(u, amount)

NextOverlap ==
    \/ \E u \in PayUsers, a \in AmountChoices : WithdrawOverlapping(u, a)
    \/ \E tm \in timers : TimerFires(tm)

SpecOverlap == InitPay /\ [][NextOverlap]_vars

\* the balance u's wallet held before any withdrawal
openingBalance(u) == (CHOOSE w \in InitialWallets[u] : TRUE).balance

\* the amounts of u's completed withdrawal transactions, added up
withdrawn(u) ==
    SumOver({i \in TxnIds : /\ transactions[i].user_id = u
                            /\ transactions[i].type = "withdrawal"
                            /\ transactions[i].status = "completed"},
            [i \in TxnIds |-> transactions[i].amount])

\* C38: two overlapping withdrawals whose amounts together exceed the balance
\* cannot both complete.  The completed withdrawals of a user never add up to
\* more than the funds that were in the user's balance.
WithdrawalsCovered ==
    \A u \in PayUsers : withdrawn(u) <= openingBalance(u)

\* C39: a sequential run createNewTask, acceptTask, completeTask with no
\* other activity leaves the runner's balance runner_amount higher and the
\* requester's balance reward_amount lower than before the task, and both
\* escrow_balances at their values before the task.
SequentialRunSettles ==
    \A t \in TaskIds :
        (hist[t] = <<"create", "accept", "complete">> /\ nops = 3)
        => LET task == tasks[t]
               requester == wallets[task.requester_id]
               runner == wallets[task.runner_id]
           IN  /\ runner.balance = openingBalance(task.runner_id) + task.runner_amount
               /\ requester.balance = openingBalance(task.requester_id) - task.reward_amount
               /\ requester.escrow_balance = 0
               /\ runner.escrow_balance = 0

\* C40: a task is completed, once completeTask has returned, only if its
\* runner has been paid.  After a completeTask call that left task t
\* completed, the call credited runner_amount to the balance of t's runner
\* and a completed task_earning transaction of t exists.
CompletedOnlyIfPaid ==
    [][\A t \in TaskIds :
          (/\ lastCall'.op = "completeTask"
           /\ lastCall'.task = t
           /\ nops' = nops + 1
           /\ tasks'[t].status = "completed")
          => /\ tasks'[t].runner_id # NoUser
             /\ wallets'[tasks'[t].runner_id].balance
                    = wallets[tasks'[t].runner_id].balance + tasks'[t].runner_amount
             /\ \E i \in txnsOf(t, "task_earning")' :
                    /\ transactions'[i].status = "completed"
                    /\ i \notin TxnIds]_vars

====
